---- MODULE Spec2Model ----
(***************************************************************************)
(* Model of go-api-scheduler: the registry of scheduler instances          *)
(* (internal/scheduler/scheduler.go: schedulers, mu, StartScheduler,       *)
(* StopScheduler) and the goroutine of each instance (Scheduler.run,       *)
(* Scheduler.callAPI).                                                     *)
(*                                                                         *)
(* Spec is the scheduler package after scheduler.Init(): the map exists    *)
(* and is empty.  StartScheduler and StopScheduler are called by any       *)
(* number of concurrent HTTP handler goroutines (caller 0) and             *)
(* StopScheduler also by the instances' own goroutines (caller j).         *)
(* Time is abstracted: whenever a select is evaluated its timer or ticker  *)
(* may have fired, and an HTTP call may return any outcome.  The           *)
(* computation of the wait duration (scheduler.go:100-104) is not          *)
(* modelled.  In Spec the diagnostics are kept as lastLog, the entry last  *)
(* passed to logger.AddLog.                                                *)
(*                                                                         *)
(* SpecLogger is internal/logger/logger.go on its own: concurrent AddLog   *)
(* calls on the capped log.  SpecMain is the program as main wires it      *)
(* (cmd/api-scheduler/main.go with internal/handler/handler.go): what the  *)
(* /start and /stop handlers do from the state main leaves.                *)
(***************************************************************************)
EXTENDS Integers, Sequences, FiniteSets, TLC

\* ------------------------------------------------------------- bounds
\* Scheduler instances whose goroutine has not returned, at any one time.
MaxJobs == 2
\* Goroutines calling logger.AddLog concurrently.
MaxCallers == 2
\* AddLog calls over a run.
MaxAdds == 150

Ids == {"a"}
NoId == "-"
Jobs == 1..MaxJobs
\* Caller 0 is an HTTP handler goroutine, caller j > 0 the goroutine of job j.
External == 0
NoJob == 0

\* ------------------------------------------------------------- inputs
Digits == {"0", "1", "2", "3", "4", "5", "6", "7", "8", "9"}

DigitVal(c) ==
    CASE c = "0" -> 0 [] c = "1" -> 1 [] c = "2" -> 2 [] c = "3" -> 3
      [] c = "4" -> 4 [] c = "5" -> 5 [] c = "6" -> 6 [] c = "7" -> 7
      [] c = "8" -> 8 [] c = "9" -> 9

\* URLs the front-end may pass: net/url accepts the first and rejects the
\* second (a host with an unclosed bracket).
GoodURL == "http://localhost:8080/fake-server"
BadURL == "http://[::1"

\* Payload blobs, and the mapping encoding/json decodes them to.
GoodPayload == "{\"k\":\"v\"}"
BadPayload == "k=v"

Config(st, rv, ru, url, m, p) ==
    [StartTime |-> st, RepeatValue |-> rv, RepeatUnit |-> ru,
     APIURL |-> url, HTTPMethod |-> m, Payload |-> p]

NoConfig == Config(<<>>, 0, "", "", "", "")

\* A start time is the sequence of the characters of SchedulerConfig.StartTime.
GoodStart == <<"0", "9", ":", "3", "0", ":", "0", "0">>

\* The configurations StartHandler passes on: it validates none of the fields.
Configs ==
    { Config(GoodStart, 1, "s", GoodURL, "GET", GoodPayload),
      Config(GoodStart, 2, "h", GoodURL, "post", BadPayload),
      Config(GoodStart, 1, "m", BadURL, "GET", GoodPayload),
      Config(GoodStart, 1, "d", GoodURL, "GET", GoodPayload),
      Config(GoodStart, 0, "s", GoodURL, "GET", GoodPayload),
      Config(<<"2", "5", ":", "0", "0", ":", "0", "0">>, -1, "m", GoodURL, "POST", GoodPayload) }

\* ------------------------------------------------------------- pure code
\* time.ParseInLocation("2006-01-02 15:04:05", today + " " + StartTime):
\* hour of one or two digits, two-digit minute and second, ranges checked.
ParseStartTime(st) ==
    LET n == Len(st)
        hl == IF n = 8 THEN 2 ELSE 1
        digitsAt(S) == \A i \in S : st[i] \in Digits
        num2(i) == 10 * DigitVal(st[i]) + DigitVal(st[i + 1])
        hour == IF hl = 2 THEN num2(1) ELSE DigitVal(st[1])
    IN  /\ n \in {7, 8}
        /\ st[hl + 1] = ":" /\ st[hl + 4] = ":"
        /\ digitsAt((1..hl) \cup {hl + 2, hl + 3, hl + 5, hl + 6})
        /\ hour < 24
        /\ num2(hl + 2) < 60
        /\ num2(hl + 5) < 60

ValidUnits == {"h", "m", "s"}

\* The repeat interval in seconds (the switch of run); 0 stands for no interval.
RepeatInterval(cfg) ==
    CASE cfg.RepeatUnit = "h" -> cfg.RepeatValue * 3600
      [] cfg.RepeatUnit = "m" -> cfg.RepeatValue * 60
      [] cfg.RepeatUnit = "s" -> cfg.RepeatValue
      [] OTHER -> 0

\* json.Unmarshal of the payload into map[string]string; the error is dropped
\* and the map stays nil (empty).
DecodePayload(p) ==
    IF p = GoodPayload THEN {<<"k", "v">>} ELSE {}

ToUpper(m) ==
    CASE m = "post" -> "POST" [] m = "get" -> "GET" [] OTHER -> m

\* The request callAPI builds, or the error of url.Parse / http.NewRequest.
BuildRequest(cfg) ==
    LET params == DecodePayload(cfg.Payload)
    IN  IF ToUpper(cfg.HTTPMethod) = "POST"
        THEN IF cfg.APIURL = BadURL
             THEN [err |-> "NewRequest"]
             ELSE [err |-> "", method |-> "POST", url |-> cfg.APIURL,
                   query |-> {}, form |-> params]
        ELSE IF cfg.APIURL = BadURL
             THEN [err |-> "Parse"]
             ELSE [err |-> "", method |-> "GET", url |-> cfg.APIURL,
                   query |-> params, form |-> {}]

\* What client.Do and io.ReadAll can yield: an error, or a response with a
\* status code.
StatusOK == 200
Outcome(err, status) == [err |-> err, status |-> status]
Outcomes ==
    { Outcome("Do", 0), Outcome("ReadAll", 0),
      Outcome("", 200), Outcome("", 204), Outcome("", 500) }

\* ------------------------------------------------------------- state
VARIABLES
    initialized,  \* the schedulers map has been made (scheduler.Init)
    schedulers,   \* id -> job held under that id, NoJob when absent
    mu,           \* the registry lock: Free, or the StopScheduler call holding it
    objs,         \* job -> its Scheduler struct
    gor,          \* job -> the state of its run() goroutine
    lastLog,      \* the entry most recently passed to logger.AddLog
    crashed,      \* an unrecovered panic has ended the process
    logs,         \* logger.logs: the entries kept, oldest first
    logmu,        \* logger.mu: free, or the AddLog call holding it
    added,        \* AddLog calls that have appended so far
    mainpc,       \* where main() is
    resp          \* what the handler that ran last answered

vars == <<initialized, schedulers, mu, objs, gor, lastLog, crashed>>
logvars == <<logs, logmu, added>>
mainvars == <<mainpc, resp>>
allvars == <<vars, logvars, mainvars>>

Free == [held |-> FALSE, proc |-> External, id |-> NoId]
Held(p, id) == [held |-> TRUE, proc |-> p, id |-> id]

NoObj == [id |-> NoId, closed |-> FALSE, running |-> FALSE, config |-> NoConfig]
NewObj(id, cfg) == [id |-> id, closed |-> FALSE, running |-> TRUE, config |-> cfg]

\* pc: the place run() is at, "none" when no goroutine runs in the slot (none
\* was started, or it has returned).  ok200: a call got status 200.
\* cw: stopChan was closed while run() was at the select of its start wait,
\* and run() is still there.
NoGor == [pc |-> "none", ok200 |-> FALSE, cw |-> FALSE]

Log(kind, id) == <<kind, id>>
NoLog == <<"", NoId>>

SchedInit ==
    /\ initialized = TRUE
    /\ schedulers = [i \in Ids |-> NoJob]

\* The package variables of scheduler.go before any call, and no goroutine.
NoJobsYet ==
    /\ mu = Free
    /\ objs = [j \in Jobs |-> NoObj]
    /\ gor = [j \in Jobs |-> NoGor]
    /\ lastLog = NoLog
    /\ crashed = FALSE

\* logger.go:14-20: an empty log and a free mutex.
LogFree == [held |-> FALSE, proc |-> 0, pc |-> ""]
LoggerInit ==
    /\ logs = <<>>
    /\ logmu = LogFree
    /\ added = 0

\* What a handler left: it returned after writing a status, or it panicked,
\* net/http recovered the panic and closed the connection with nothing
\* written.
Resp(h, e, st) == [handler |-> h, end |-> e, status |-> st]
NoResp == Resp("", "", 0)

Init ==
    /\ SchedInit
    /\ NoJobsYet
    /\ LoggerInit
    /\ mainpc = "serving"
    /\ resp = NoResp

\* The slots holding a live instance, and the slot of the next &Scheduler{}.
Live == {j \in Jobs : gor[j].pc # "none"}
NextJob == IF Live = Jobs THEN NoJob ELSE CHOOSE j \in Jobs \ Live : \A k \in Jobs \ Live : j <= k

\* The phases of the job state machine; a returned goroutine is Terminated.
Phase(j) ==
    CASE gor[j].pc = "none" -> "Terminated"
      [] gor[j].pc \in {"start", "stopParse"} -> "Pending"
      [] gor[j].pc \in {"wait", "stopUnit"} -> "Waiting"
      [] gor[j].pc \in {"loop", "dispatch", "stopOK"} -> "Running"

\* run() returns: the goroutine's locals are gone.
Exit(g, j) == [g EXCEPT ![j] = NoGor]

\* A Scheduler struct nothing refers to any more is collected.
Collect(o, g, m) ==
    [j \in Jobs |-> IF g[j].pc = "none" /\ \A i \in Ids : m[i] # j
                    THEN NoObj ELSE o[j]]

\* ------------------------------------------------------------- registry
\* A StartScheduler that replaces the configuration of a job already held.
StartSchedulerReplacing(id, cfg) ==
    /\ ~crashed
    /\ mu = Free
    /\ IF schedulers[id] # NoJob
       THEN /\ objs' = [objs EXCEPT ![schedulers[id]].config = cfg]
            /\ lastLog' = Log("alreadyRunning", id)
            /\ UNCHANGED <<initialized, schedulers, mu, gor, crashed>>
       ELSE /\ NextJob # NoJob
            /\ objs' = [objs EXCEPT ![NextJob] = NewObj(id, cfg)]
            /\ schedulers' = [schedulers EXCEPT ![id] = NextJob]
            /\ gor' = [gor EXCEPT ![NextJob] = [NoGor EXCEPT !.pc = "start"]]
            /\ UNCHANGED <<initialized, mu, lastLog, crashed>>

\* StartScheduler(id, config), called by a handler goroutine: the whole body
\* runs under mu.
StartScheduler(id, cfg) ==
    /\ ~crashed
    /\ mu = Free
    /\ IF schedulers[id] # NoJob
       THEN /\ lastLog' = Log("alreadyRunning", id)
            /\ UNCHANGED <<initialized, schedulers, mu, objs, gor, crashed>>
       ELSE IF ~initialized
       THEN \* assignment to an entry of a nil map panics; net/http recovers
            \* the handler's panic and the deferred Unlock has run.
            UNCHANGED vars
       ELSE /\ NextJob # NoJob
            /\ objs' = [objs EXCEPT ![NextJob] = NewObj(id, cfg)]
            /\ schedulers' = [schedulers EXCEPT ![id] = NextJob]
            /\ gor' = [gor EXCEPT ![NextJob] = [NoGor EXCEPT !.pc = "start"]]
            /\ UNCHANGED <<initialized, mu, lastLog, crashed>>

\* The callers of StopScheduler: a handler goroutine with any id, or job p
\* with its own id from scheduler.go:96, 126 and 207.
CanCallStop(p, id) ==
    \/ p = External
    \/ /\ p \in Jobs
       /\ gor[p].pc \in {"stopParse", "stopUnit", "stopOK"}
       /\ id = objs[p].id

\* A return from StopScheduler that sends a job back to its start wait.
ReturnToWait(g, p) ==
    IF p = External THEN g
    ELSE IF g[p].pc = "stopOK"
         THEN [g EXCEPT ![p].pc = "wait"]
         ELSE Exit(g, p)

\* Where caller p goes on when StopScheduler returns.
Return(g, p) ==
    IF p = External THEN g
    ELSE IF g[p].pc = "stopOK"
         THEN [g EXCEPT ![p].pc = "loop"]
         ELSE Exit(g, p)

\* A stop that marks the job as not running and leaves its stop channel open.
MarkNotRunning(o, j) == [o EXCEPT ![j].running = FALSE]

\* close(s.stopChan); s.running = false
CloseStop(o, j) == [o EXCEPT ![j].closed = TRUE, ![j].running = FALSE]

\* A delete that leaves the entry in the map.
DeleteNothing(m, id) == m

\* delete(schedulers, id)
DeleteEntry(m, id) == [m EXCEPT ![id] = NoJob]

\* A StopScheduler that unlocks after the close and never deletes the entry.
StopSchedulerBodyNoDelete(p, id) ==
    /\ ~crashed
    /\ mu = Free
    /\ CanCallStop(p, id)
    /\ IF schedulers[id] = NoJob \/ objs[schedulers[id]].closed
       THEN /\ lastLog' = Log("notFound", id)
            /\ gor' = Return(gor, p)
            /\ objs' = Collect(objs, gor', schedulers)
            /\ UNCHANGED <<initialized, schedulers, mu, crashed>>
       ELSE /\ objs' = CloseStop(objs, schedulers[id])
            /\ lastLog' = Log("stopped", id)
            /\ gor' = Return(gor, p)
            /\ UNCHANGED <<initialized, schedulers, mu, crashed>>

\* A StopScheduler that reports a miss as a stop.
StopSchedulerBodyMissLogged(p, id) ==
    /\ ~crashed
    /\ mu = Free
    /\ CanCallStop(p, id)
    /\ IF schedulers[id] = NoJob
       THEN /\ lastLog' = Log("stopped", id)
            /\ gor' = Return(gor, p)
            /\ objs' = Collect(objs, gor', schedulers)
            /\ UNCHANGED <<initialized, schedulers, mu, crashed>>
       ELSE /\ objs' = CloseStop(objs, schedulers[id])
            /\ mu' = Held(p, id)
            /\ UNCHANGED <<initialized, schedulers, gor, lastLog, crashed>>

\* The branch StopScheduler(id) takes on registry m and structs o.
StopCase(m, o, id) ==
    IF m[id] = NoJob THEN "notFound"
    ELSE IF ~o[m[id]].running THEN "notRunning"
    ELSE IF o[m[id]].closed THEN "closePanic"
    ELSE "stopped"

\* StopScheduler(id) up to the close of the stop channel: mu.Lock, the lookup,
\* and either the diagnostic of a miss and the return, or close(s.stopChan)
\* and s.running = false with mu still held.
StopSchedulerBody(p, id) ==
    /\ ~crashed
    /\ mu = Free
    /\ CanCallStop(p, id)
    /\ LET j == schedulers[id]
           c == StopCase(schedulers, objs, id) IN
       IF c \in {"notFound", "notRunning"}
       THEN /\ lastLog' = Log(c, id)
            /\ gor' = Return(gor, p)
            /\ objs' = Collect(objs, gor', schedulers)
            /\ UNCHANGED <<initialized, schedulers, mu, crashed>>
       ELSE IF c = "closePanic"
       THEN \* close of a closed channel panics: recovered in a handler,
            \* fatal in a job's goroutine.
            /\ crashed' = (p # External)
            /\ UNCHANGED <<initialized, schedulers, mu, objs, gor, lastLog>>
       ELSE /\ objs' = CloseStop(objs, j)
            /\ gor' = [gor EXCEPT ![j].cw = (gor[j].pc = "wait")]
            /\ mu' = Held(p, id)
            /\ UNCHANGED <<initialized, schedulers, lastLog, crashed>>

\* A StopScheduler that returns without unlocking mu.
StopSchedulerDeleteNoUnlock(p) ==
    /\ ~crashed
    /\ mu.held /\ mu.proc = p
    /\ schedulers[mu.id] # NoJob
    /\ schedulers' = DeleteEntry(schedulers, mu.id)
    /\ lastLog' = Log("stopped", mu.id)
    /\ gor' = Return(gor, p)
    /\ objs' = Collect(objs, gor', schedulers')
    /\ UNCHANGED <<initialized, mu, crashed>>

\* The rest of StopScheduler: delete(schedulers, id), the diagnostic, and the
\* deferred mu.Unlock.
StopSchedulerDelete(p) ==
    /\ ~crashed
    /\ mu.held /\ mu.proc = p
    /\ schedulers' = DeleteEntry(schedulers, mu.id)
    /\ lastLog' = Log("stopped", mu.id)
    /\ mu' = Free
    /\ gor' = Return(gor, p)
    /\ objs' = Collect(objs, gor', schedulers')
    /\ UNCHANGED <<initialized, crashed>>

\* ------------------------------------------------------------- run()
\* A run() that goes on to wait with an unparsed start time.
RunParseIgnoringError(j) ==
    /\ ~crashed
    /\ gor[j].pc = "start"
    /\ lastLog' = Log("waiting", objs[j].id)
    /\ gor' = [gor EXCEPT ![j].pc = "wait"]
    /\ UNCHANGED <<initialized, schedulers, mu, objs, crashed>>

\* A run() that returns on a parse error without StopScheduler(s.id).
RunParseNoSelfStop(j) ==
    /\ ~crashed
    /\ gor[j].pc = "start"
    /\ IF ParseStartTime(objs[j].config.StartTime)
       THEN /\ lastLog' = Log("waiting", objs[j].id)
            /\ gor' = [gor EXCEPT ![j].pc = "wait"]
            /\ UNCHANGED objs
       ELSE /\ lastLog' = Log("parseError", objs[j].id)
            /\ gor' = Exit(gor, j)
            /\ objs' = Collect(objs, gor', schedulers)
    /\ UNCHANGED <<initialized, schedulers, mu, crashed>>

\* scheduler.go:88-106: the start diagnostics and the parse of the start time.
RunParse(j) ==
    /\ ~crashed
    /\ gor[j].pc = "start"
    /\ IF ParseStartTime(objs[j].config.StartTime)
       THEN /\ lastLog' = Log("waiting", objs[j].id)
            /\ gor' = [gor EXCEPT ![j].pc = "wait"]
       ELSE /\ lastLog' = Log("parseError", objs[j].id)
            /\ gor' = [gor EXCEPT ![j].pc = "stopParse"]
    /\ UNCHANGED <<initialized, schedulers, mu, objs, crashed>>

\* A run() whose switch lets an unknown unit through as seconds.
WaitExpiredNoDefault(j) ==
    /\ ~crashed
    /\ gor[j].pc = "wait"
    /\ IF objs[j].config.RepeatValue <= 0
       THEN /\ crashed' = TRUE
            /\ UNCHANGED <<gor, lastLog>>
       ELSE /\ lastLog' = Log("running", objs[j].id)
            /\ gor' = [gor EXCEPT ![j].pc = "loop", ![j].cw = FALSE]
            /\ UNCHANGED crashed
    /\ UNCHANGED <<initialized, schedulers, mu, objs>>

\* scheduler.go:109, 116-133: the timer of time.After has fired and the select
\* takes it (also when the stop channel is closed by then: a select with two
\* ready cases takes either); the switch on the repeat unit; time.NewTicker,
\* which panics on an interval <= 0.
WaitExpired(j) ==
    /\ ~crashed
    /\ gor[j].pc = "wait"
    /\ IF objs[j].config.RepeatUnit \notin ValidUnits
       THEN /\ lastLog' = Log("invalidUnit", objs[j].id)
            /\ gor' = [gor EXCEPT ![j].pc = "stopUnit", ![j].cw = FALSE]
            /\ UNCHANGED crashed
       ELSE IF RepeatInterval(objs[j].config) <= 0
       THEN /\ crashed' = TRUE
            /\ UNCHANGED <<gor, lastLog>>
       ELSE /\ lastLog' = Log("running", objs[j].id)
            /\ gor' = [gor EXCEPT ![j].pc = "loop", ![j].cw = FALSE]
            /\ UNCHANGED crashed
    /\ UNCHANGED <<initialized, schedulers, mu, objs>>

\* scheduler.go:111-113: the select takes the closed stop channel.
WaitStopped(j) ==
    /\ ~crashed
    /\ gor[j].pc = "wait"
    /\ objs[j].closed
    /\ lastLog' = Log("stoppedBeforeStart", objs[j].id)
    /\ gor' = Exit(gor, j)
    /\ objs' = Collect(objs, gor', schedulers)
    /\ UNCHANGED <<initialized, schedulers, mu, crashed>>

\* scheduler.go:137-138, 148-187: the ticker has fired and the select takes
\* the tick (also when the stop channel is closed by then); callAPI builds the
\* request and returns at once when that fails.
LoopTick(j) ==
    /\ ~crashed
    /\ gor[j].pc = "loop"
    /\ IF BuildRequest(objs[j].config).err # ""
       THEN /\ lastLog' = Log("requestError", objs[j].id)
            /\ UNCHANGED gor
       ELSE /\ lastLog' = Log("apiCall", objs[j].id)
            /\ gor' = [gor EXCEPT ![j].pc = "dispatch"]
    /\ UNCHANGED <<initialized, schedulers, mu, objs, crashed>>

\* A loop that notes the closed stop channel and goes on ticking.
LoopStoppedGoesOn(j) ==
    /\ ~crashed
    /\ gor[j].pc = "loop"
    /\ objs[j].closed
    /\ lastLog' = Log("stopped", objs[j].id)
    /\ UNCHANGED <<initialized, schedulers, mu, objs, gor, crashed>>

\* scheduler.go:139-141: the select takes the closed stop channel.
LoopStopped(j) ==
    /\ ~crashed
    /\ gor[j].pc = "loop"
    /\ objs[j].closed
    /\ lastLog' = Log("stopped", objs[j].id)
    /\ gor' = Exit(gor, j)
    /\ objs' = Collect(objs, gor', schedulers)
    /\ UNCHANGED <<initialized, schedulers, mu, crashed>>

\* A response handling that logs the 200 and goes on ticking.
ResponseNoAutoStop(j, r) ==
    /\ ~crashed
    /\ gor[j].pc = "dispatch"
    /\ lastLog' = Log(IF r.err # "" THEN "apiError" ELSE "response", objs[j].id)
    /\ gor' = [gor EXCEPT ![j].pc = "loop",
                          ![j].ok200 = (r.err = "" /\ r.status = StatusOK)]
    /\ UNCHANGED <<initialized, schedulers, mu, objs, crashed>>

\* scheduler.go:189-208: client.Do returns and the response is handled.
Response(j, r) ==
    /\ ~crashed
    /\ gor[j].pc = "dispatch"
    /\ IF r.err = "Do"
       THEN /\ lastLog' = Log("apiError", objs[j].id)
            /\ gor' = [gor EXCEPT ![j].pc = "loop"]
       ELSE IF r.err = "ReadAll"
       THEN /\ lastLog' = Log("readError", objs[j].id)
            /\ gor' = [gor EXCEPT ![j].pc = "loop"]
       ELSE IF r.status = StatusOK
       THEN /\ lastLog' = Log("autoStop", objs[j].id)
            /\ gor' = [gor EXCEPT ![j].pc = "stopOK", ![j].ok200 = TRUE]
       ELSE /\ lastLog' = Log("response", objs[j].id)
            /\ gor' = [gor EXCEPT ![j].pc = "loop"]
    /\ UNCHANGED <<initialized, schedulers, mu, objs, crashed>>

\* The steps of the scheduler package; the logger's own state and main's are
\* not followed here.
Next ==
    \/ \E id \in Ids, cfg \in Configs : StartScheduler(id, cfg) /\ UNCHANGED <<logvars, mainvars>>
    \/ \E p \in {External} \cup Jobs, id \in Ids : StopSchedulerBody(p, id) /\ UNCHANGED <<logvars, mainvars>>
    \/ \E p \in {External} \cup Jobs : StopSchedulerDelete(p) /\ UNCHANGED <<logvars, mainvars>>
    \/ \E j \in Jobs : RunParse(j) /\ UNCHANGED <<logvars, mainvars>>
    \/ \E j \in Jobs : WaitExpired(j) /\ UNCHANGED <<logvars, mainvars>>
    \/ \E j \in Jobs : WaitStopped(j) /\ UNCHANGED <<logvars, mainvars>>
    \/ \E j \in Jobs : LoopTick(j) /\ UNCHANGED <<logvars, mainvars>>
    \/ \E j \in Jobs : LoopStopped(j) /\ UNCHANGED <<logvars, mainvars>>
    \/ \E j \in Jobs, r \in Outcomes : Response(j, r) /\ UNCHANGED <<logvars, mainvars>>

Spec == Init /\ [][Next]_allvars

\* What the scheduling of the code guarantees: a goroutine that can run its
\* next step does so (weak fairness); a StopScheduler call waiting at mu.Lock
\* gets the mutex although others keep taking it, and the loop's select,
\* which takes a ready case at random, takes the closed stop channel in the
\* end (strong fairness); every API call returns, at the latest on the
\* client's timeout of ten seconds.  Handlers start and stop as they like.
Fairness ==
    /\ WF_allvars(StopSchedulerDelete(External) /\ UNCHANGED <<logvars, mainvars>>)
    /\ \A j \in Jobs :
          /\ WF_allvars(RunParse(j) /\ UNCHANGED <<logvars, mainvars>>)
          /\ WF_allvars(WaitStopped(j) /\ UNCHANGED <<logvars, mainvars>>)
          /\ SF_allvars(LoopStopped(j) /\ UNCHANGED <<logvars, mainvars>>)
          /\ WF_allvars((\E r \in Outcomes : Response(j, r)) /\ UNCHANGED <<logvars, mainvars>>)
          /\ SF_allvars((\E id \in Ids : StopSchedulerBody(j, id)) /\ UNCHANGED <<logvars, mainvars>>)
          /\ WF_allvars(StopSchedulerDelete(j) /\ UNCHANGED <<logvars, mainvars>>)

FairSpec == Spec /\ Fairness

\* ------------------------------------------------------------- logger
\* logger.go:37: the length above which AddLog drops an entry.
MaxLogs == 100

Callers == 1..MaxCallers

\* A LogEntry.  Its time is the number of the AddLog call that made it: the
\* clock never goes back, and the number tells the entries apart.
LogEntry(t, m) == [Time |-> t, Message |-> m]

\* The messages of the AddLog calls followed in SpecLogger: what AddLog does
\* does not depend on the message.
Messages == {Log("apiCall", "a")}

\* A trim that drops the newest entry.
TrimNewest(l) == IF Len(l) > MaxLogs THEN SubSeq(l, 1, MaxLogs) ELSE l

\* logger.go:37-39: if len(logs) > 100 { logs = logs[1:] }
Trim(l) == IF Len(l) > MaxLogs THEN SubSeq(l, 2, Len(l)) ELSE l

\* logger.go:29: caller p takes the logger's mutex.
AddLogLock(p) ==
    /\ ~logmu.held
    /\ added < MaxAdds
    /\ logmu' = [held |-> TRUE, proc |-> p, pc |-> "append"]
    /\ UNCHANGED <<logs, added>>

\* logger.go:31-35: the entry is made and appended.
AddLogAppend(p, m) ==
    /\ logmu.held /\ logmu.proc = p /\ logmu.pc = "append"
    /\ logs' = Append(logs, LogEntry(added + 1, m))
    /\ added' = added + 1
    /\ logmu' = [logmu EXCEPT !.pc = "trim"]

\* logger.go:37-40: the trim, and the deferred mu.Unlock.
AddLogTrim(p) ==
    /\ logmu.held /\ logmu.proc = p /\ logmu.pc = "trim"
    /\ logs' = Trim(logs)
    /\ logmu' = LogFree
    /\ UNCHANGED added

LoggerNext ==
    \/ \E p \in Callers : AddLogLock(p) /\ UNCHANGED <<vars, mainvars>>
    \/ \E p \in Callers, m \in Messages : AddLogAppend(p, m) /\ UNCHANGED <<vars, mainvars>>
    \/ \E p \in Callers : AddLogTrim(p) /\ UNCHANGED <<vars, mainvars>>

SpecLogger == Init /\ [][LoggerNext]_allvars

\* ------------------------------------------------------------- main
StatusBadRequest == 400

\* The state main() starts from: the package variables as declared.  The
\* schedulers map is nil (a nil map reads as empty), the log is empty.
MainInit ==
    /\ initialized = FALSE
    /\ schedulers = [i \in Ids |-> NoJob]
    /\ NoJobsYet
    /\ LoggerInit
    /\ mainpc = "init"
    /\ resp = NoResp

\* main.go:13-16: logger.Init() and handler.Init(), whose bodies are empty.
\* scheduler.Init() is called by neither.
MainInits ==
    /\ mainpc = "init"
    /\ mainpc' = "listen"
    /\ UNCHANGED <<vars, logvars, resp>>

\* main.go:19-32: the handlers are registered and the server listens.
MainListen ==
    /\ mainpc = "listen"
    /\ mainpc' = "serving"
    /\ UNCHANGED <<vars, logvars, resp>>

\* logger.AddLog as a whole, as the callers of the logger see it.
AddLog(m) ==
    /\ added < MaxAdds
    /\ logs' = Trim(Append(logs, LogEntry(added + 1, m)))
    /\ added' = added + 1
    /\ UNCHANGED logmu

\* StartScheduler's assignment schedulers[id] = s on the nil map.
StartPanics(id) == schedulers[id] = NoJob /\ ~initialized

\* handler.go StartHandler: the body is decoded (ok: it is valid JSON) and
\* StartScheduler is called with its fields.
StartHandler(ok, id, cfg) ==
    /\ mainpc = "serving"
    /\ IF ~ok
       THEN /\ resp' = Resp("start", "returned", StatusBadRequest)
            /\ UNCHANGED <<vars, logvars>>
       ELSE /\ StartScheduler(id, cfg)
            /\ IF schedulers[id] # NoJob THEN AddLog(lastLog') ELSE UNCHANGED logvars
            /\ resp' = IF StartPanics(id)
                       THEN Resp("start", "panicked", 0)
                       ELSE Resp("start", "returned", StatusOK)
    /\ UNCHANGED mainpc

\* handler.go StopHandler, for an id the registry does not hold: StopScheduler
\* takes its "not found" branch.  (The other branches are followed in Spec;
\* from MainInit the registry never holds a job.)
StopHandler(ok, id) ==
    /\ mainpc = "serving"
    /\ IF ~ok
       THEN /\ resp' = Resp("stop", "returned", StatusBadRequest)
            /\ UNCHANGED <<vars, logvars>>
       ELSE /\ schedulers[id] = NoJob
            /\ StopSchedulerBody(External, id)
            /\ AddLog(lastLog')
            /\ resp' = Resp("stop", "returned", StatusOK)
    /\ UNCHANGED mainpc

\* handler.go LogsHandler: the entries of logger.GetLogs() are written.
LogsHandler ==
    /\ mainpc = "serving"
    /\ ~logmu.held
    /\ resp' = Resp("logs", "returned", StatusOK)
    /\ UNCHANGED <<vars, logvars, mainpc>>

\* handler.go FakeServerHandler: the request body is written back.
FakeServerHandler ==
    /\ mainpc = "serving"
    /\ resp' = Resp("fake-server", "returned", StatusOK)
    /\ UNCHANGED <<vars, logvars, mainpc>>

MainNext ==
    \/ MainInits
    \/ MainListen
    \/ \E ok \in BOOLEAN, id \in Ids, cfg \in Configs : StartHandler(ok, id, cfg)
    \/ \E ok \in BOOLEAN, id \in Ids : StopHandler(ok, id)
    \/ LogsHandler
    \/ FakeServerHandler

SpecMain == MainInit /\ [][MainNext]_allvars

\* ------------------------------------------------------------- properties
Registered(j) == \E i \in Ids : schedulers[i] = j

\* C1: a StartScheduler(id, cfg) that finds id in the registry changes nothing
\* (registry, every Scheduler struct with its config and stop channel, every
\* goroutine, the lock): it launches no goroutine and only emits the
\* "already running" diagnostic.
C1_DuplicateStartIsNoOp ==
    [][\A id \in Ids, cfg \in Configs :
          (StartScheduler(id, cfg) /\ schedulers[id] # NoJob) =>
              /\ schedulers' = schedulers
              /\ objs' = objs
              /\ gor' = gor
              /\ Live' = Live
              /\ mu' = mu
              /\ crashed' = crashed
              /\ lastLog' = Log("alreadyRunning", id)]_vars

\* A duplicate start has just been refused while the first job, with another
\* configuration than the refused one could have had, is still held.
C1_Witness ==
    \E id \in Ids :
        /\ lastLog = Log("alreadyRunning", id)
        /\ schedulers[id] # NoJob
        /\ objs[schedulers[id]].running
        /\ gor[schedulers[id]].pc = "loop"

\* With mu free, a job is held by the registry exactly when it has not been
\* cancelled: held jobs are running with an open stop channel, live jobs no
\* longer held have a closed stop channel and running = false.
StopIsAtomic ==
    mu = Free =>
        \A j \in Jobs :
            /\ Registered(j) => (objs[j].running /\ ~objs[j].closed)
            /\ (j \in Live /\ ~Registered(j)) => (objs[j].closed /\ ~objs[j].running)

\* C2: StopScheduler(id) on a held id closes the stop channel and deletes the
\* entry within one critical section: whenever mu is free the registry and
\* the cancellation signals agree, the close happens with mu taken, and the
\* step that releases mu leaves the id absent, the condition on which the
\* next StartScheduler(id) is accepted.
C2_StopAtomicUnderLock ==
    /\ []StopIsAtomic
    /\ [][\A j \in Jobs : (~objs[j].closed /\ objs'[j].closed) =>
              (mu = Free /\ mu'.held /\ schedulers[mu'.id] = j)]_vars
    /\ [][\A p \in {External} \cup Jobs : StopSchedulerDelete(p) =>
              /\ schedulers'[mu.id] = NoJob
              /\ mu' = Free
              /\ \A j \in Jobs : schedulers[mu.id] = j => objs[j].closed]_vars

\* A stop is in its critical section: the job is cancelled and still held.
C2_Witness ==
    /\ mu.held
    /\ mu.proc = External
    /\ schedulers[mu.id] # NoJob
    /\ objs[schedulers[mu.id]].closed

\* C3: StopScheduler(id) for an id the registry does not hold emits the
\* "not found" diagnostic and leaves the registry, the lock and every job
\* (struct and goroutine) as they were; a job that made the call on itself
\* only goes on from the call.
C3_StopUnknownIsNoOp ==
    [][\A p \in {External} \cup Jobs, id \in Ids :
          (StopSchedulerBody(p, id) /\ schedulers[id] = NoJob) =>
              /\ lastLog' = Log("notFound", id)
              /\ schedulers' = schedulers
              /\ mu' = mu
              /\ crashed' = crashed
              /\ \A j \in Jobs \ {p} : objs'[j] = objs[j] /\ gor'[j] = gor[j]
              /\ p = External => (objs' = objs /\ gor' = gor)]_vars

\* A stop has just missed while a cancelled job was still executing.
C3_Witness ==
    \E id \in Ids :
        /\ lastLog = Log("notFound", id)
        /\ schedulers[id] = NoJob
        /\ \E j \in Live : objs[j].id = id /\ gor[j].pc = "dispatch"


\* A whole StopScheduler(id) call on registry m and structs o: what it leaves
\* and the diagnostic it emits.
StopOnce(m, o, id) ==
    LET c == StopCase(m, o, id)
    IN  [schedulers |-> IF c = "stopped" THEN DeleteEntry(m, id) ELSE m,
         objs |-> IF c = "stopped" THEN CloseStop(o, m[id]) ELSE o,
         log |-> Log(c, id)]

StopTwiceIsStopOnce ==
    mu = Free =>
        \A id \in Ids :
            LET r1 == StopOnce(schedulers, objs, id)
                r2 == StopOnce(r1.schedulers, r1.objs, id)
            IN  /\ r2.schedulers = r1.schedulers
                /\ r2.objs = r1.objs
                /\ r2.log = Log("notFound", id)

\* C4: StopScheduler(id) twice with no StartScheduler(id) in between leaves
\* the registry and the jobs as one call does; the second call takes the
\* "not found" branch, which closes no stop channel: from every state with mu
\* free the two calls compose to the first, and the step that completes a stop
\* leaves a state in which StopScheduler(id) misses.
C4_StopIdempotent ==
    /\ []StopTwiceIsStopOnce
    /\ [][\A p \in {External} \cup Jobs : StopSchedulerDelete(p) =>
              StopCase(schedulers', objs', mu.id) = "notFound"]_vars

\* A stop has missed after the stop that cancelled the job last held: the
\* cancelled job is still at its start wait.
C4_Witness ==
    \E id \in Ids :
        /\ lastLog = Log("notFound", id)
        /\ mu = Free
        /\ schedulers[id] = NoJob
        /\ \E j \in Live : objs[j].id = id /\ objs[j].closed /\ gor[j].pc = "wait"

\* The job leaves the StopScheduler call it made on itself.
SelfStopReturns(j) ==
    \/ StopSchedulerDelete(j)
    \/ StopSchedulerBody(j, objs[j].id) /\ ~mu'.held /\ ~crashed'

\* C5: a response with status 200 makes the job stop itself; when that
\* StopScheduler call returns the id is absent from the registry (so the next
\* StartScheduler(id) is accepted) and the job's stop channel is closed, and
\* from then on the job's loop has its stop case ready, which ends the job
\* (unless a panic has ended the whole process first).
C5_OkResponseStopsJob ==
    /\ [][\A j \in Jobs, r \in Outcomes :
              (Response(j, r) /\ r.err = "" /\ r.status = 200) =>
                  (gor'[j].pc = "stopOK" /\ gor'[j].ok200)]_vars
    /\ [][\A j \in Jobs : (gor[j].pc = "stopOK" /\ SelfStopReturns(j)) =>
              /\ schedulers'[objs[j].id] = NoJob
              /\ objs'[j].closed
              /\ gor'[j].pc = "loop"]_vars
    /\ [](\A j \in Jobs : (gor[j].ok200 /\ gor[j].pc = "loop") =>
              /\ objs[j].closed
              /\ ~Registered(j)
              /\ crashed \/ ENABLED (LoopStopped(j) /\ gor'[j].pc = "none"))

\* A job that got 200 has stopped itself and a new job has since been started
\* under its id.
C5_Witness ==
    \E j \in Jobs, k \in Jobs :
        /\ gor[j].ok200 /\ gor[j].pc = "loop" /\ objs[j].closed
        /\ k # j
        /\ schedulers[objs[j].id] = k
        /\ gor[k].pc = "start"

\* C6: a held job that is Running and has got no 200 stays held, uncancelled
\* and Running with every step, save a StopScheduler(id) from a handler.
C6_RunsUntilExternalStop ==
    [][\A j \in Jobs :
          (Registered(j) /\ ~objs[j].closed /\ Phase(j) = "Running" /\ ~gor[j].ok200) =>
              \/ StopSchedulerBody(External, objs[j].id)
              \/ /\ schedulers'[objs[j].id] = j
                 /\ ~objs'[j].closed
                 /\ gor'[j].pc \in {"loop", "dispatch", "stopOK"}]_vars

InvalidUnit(j) == j \in Live /\ objs[j].config.RepeatUnit \notin ValidUnits

\* C7: a job whose repeat unit is not h, m or s is never Running and never
\* calls the API; the step that takes it out of its start wait on the timer
\* sends it to stop itself, and when that StopScheduler call returns the job
\* has ended and its id is absent from the registry.
C7_InvalidUnitNeverRuns ==
    /\ [](\A j \in Jobs : InvalidUnit(j) => gor[j].pc \in {"start", "wait", "stopUnit"})
    /\ [][\A j \in Jobs : LoopTick(j) => ~InvalidUnit(j)]_vars
    /\ [][\A j \in Jobs : (InvalidUnit(j) /\ WaitExpired(j)) =>
              (gor'[j].pc = "stopUnit" /\ lastLog' = Log("invalidUnit", objs[j].id))]_vars
    /\ [][\A j \in Jobs : (gor[j].pc = "stopUnit" /\ SelfStopReturns(j)) =>
              (gor'[j].pc = "none" /\ schedulers'[objs[j].id] = NoJob)]_vars

\* A job with an invalid unit is removing itself: it holds mu, its stop
\* channel is closed and its entry is about to be deleted.
C7_Witness ==
    \E j \in Jobs :
        /\ InvalidUnit(j)
        /\ gor[j].pc = "stopUnit"
        /\ mu.held /\ mu.proc = j
        /\ schedulers[objs[j].id] = j

BadStartTime(j) == j \in Live /\ ~ParseStartTime(objs[j].config.StartTime)

\* C8: a job whose start time does not parse is only ever Pending: it goes
\* from the parse to stopping itself, never to the start wait or the loop,
\* calls no API, and when its StopScheduler call returns the job has ended
\* and its id is absent from the registry.
C8_BadStartTimeTerminates ==
    /\ [](\A j \in Jobs : BadStartTime(j) => gor[j].pc \in {"start", "stopParse"})
    /\ [][\A j \in Jobs : (LoopTick(j) \/ WaitExpired(j) \/ WaitStopped(j)) =>
              ~BadStartTime(j)]_vars
    /\ [][\A j \in Jobs : (BadStartTime(j) /\ RunParse(j)) =>
              (gor'[j].pc = "stopParse" /\ lastLog' = Log("parseError", objs[j].id))]_vars
    /\ [][\A j \in Jobs : (gor[j].pc = "stopParse" /\ SelfStopReturns(j)) =>
              (gor'[j].pc = "none" /\ schedulers'[objs[j].id] = NoJob)]_vars

\* A job with an unparsable start time is removing itself.
C8_Witness ==
    \E j \in Jobs :
        /\ BadStartTime(j)
        /\ gor[j].pc = "stopParse"
        /\ mu.held /\ mu.proc = j
        /\ schedulers[objs[j].id] = j

\* C9: a job whose stop channel was closed while it was at the select of its
\* start wait leaves that select only by ending with the "stopped before
\* start" diagnostic (so it never reaches the loop or an API call).
C9_CancelWhileWaiting ==
    [][\A j \in Jobs : gor[j].cw =>
          \/ gor'[j].pc = "wait"
          \/ gor'[j].pc = "none" /\ lastLog' = Log("stoppedBeforeStart", objs[j].id)]_vars

\* C10: no configuration the front-end passes on and no interleaving of
\* StartScheduler and StopScheduler ends the process with a panic.
C10_NoPanic == ~crashed

\* C12: the StopScheduler(s.id) a job calls on itself (after a parse error, an
\* invalid unit or a 200) closes the stop channel of no other job and deletes
\* the registry entry of no other job.
C12_SelfStopOnlySelf ==
    [][\A p \in Jobs :
          /\ StopSchedulerBody(p, objs[p].id) =>
                 \A j \in Jobs \ {p} : ~objs[j].closed => ~objs'[j].closed
          /\ StopSchedulerDelete(p) => schedulers[mu.id] = p]_vars

\* C13: a job whose stop channel is closed starts no further API call: from
\* the loop's select it does not go on to a dispatch, in particular not after
\* the 200 that made it stop itself.
C13_NoDispatchAfterCancel ==
    [][\A j \in Jobs :
          /\ (gor[j].pc = "loop" /\ objs[j].closed) => gor'[j].pc # "dispatch"
          /\ (gor[j].pc = "loop" /\ gor[j].ok200) => gor'[j].pc # "dispatch"]_vars

\* C14 as stated: no two live jobs (goroutine not yet returned) have the
\* same id.
C14_OneLivePerId ==
    \A j \in Live, k \in Live : objs[j].id = objs[k].id => j = k

\* C14, amended: of the live jobs of one id at most one has an open stop
\* channel, and it is the one the registry holds, if it holds any; the others
\* are cancelled jobs that have not yet returned.  StartScheduler(id) launches
\* a job only when the registry holds none under id, that is when every live
\* job of that id is cancelled.
C14_OneUncancelledPerId ==
    /\ [](\A j \in Live, k \in Live :
              (objs[j].id = objs[k].id /\ ~objs[j].closed /\ ~objs[k].closed) => j = k)
    /\ [](\A j \in Live : ~objs[j].closed => schedulers[objs[j].id] = j)
    /\ [][\A id \in Ids, cfg \in Configs :
              (StartScheduler(id, cfg) /\ Live' # Live) =>
                  /\ schedulers[id] = NoJob
                  /\ \A j \in Live : objs[j].id = id => objs[j].closed]_vars

\* A new job is ticking under the id of a cancelled job whose API call is
\* still in flight.
C14_Witness ==
    \E j \in Live, k \in Live :
        /\ j # k
        /\ objs[j].id = objs[k].id
        /\ objs[j].closed /\ gor[j].pc = "dispatch"
        /\ ~objs[k].closed /\ gor[k].pc = "loop"
        /\ schedulers[objs[k].id] = k

\* No StopScheduler call finds a job to stop whose stop channel is closed
\* already: close(s.stopChan) never runs on a closed channel.
NeverClosedTwice ==
    (mu = Free /\ ~crashed) =>
        \A id \in Ids : StopCase(schedulers, objs, id) # "closePanic"

\* C15: no stop channel is closed twice, and a StopScheduler call aimed at a
\* job whose stop channel is closed already (the call a cancelled job makes on
\* itself, or a handler's call for the id of a job no longer held) closes no
\* stop channel at all.
C15_CancelOnceAndLateStopNoOp ==
    /\ []NeverClosedTwice
    /\ [][\A p \in Jobs :
              (objs[p].closed /\ StopSchedulerBody(p, objs[p].id)) =>
                  \A j \in Jobs : ~objs[j].closed => ~objs'[j].closed]_vars
    /\ [][\A id \in Ids :
              (schedulers[id] = NoJob /\ StopSchedulerBody(External, id)) =>
                  \A j \in Jobs : ~objs[j].closed => ~objs'[j].closed]_vars

\* The places of run() from which a job calls StopScheduler.
InStop(j) == gor[j].pc \in {"stopParse", "stopUnit", "stopOK"}

\* mu is held only by a StopScheduler call between its Lock and its return.
LockOnlyInStop ==
    mu.held =>
        /\ mu.proc = External \/ InStop(mu.proc)
        /\ schedulers[mu.id] # NoJob

\* Nothing the holder of mu waits for: it can go on to its return; and with
\* mu free every StartScheduler and StopScheduler call can run, also the one
\* a job makes on itself, whatever the other jobs are doing.
NeverBlocked ==
    ~crashed =>
        /\ mu.held => ENABLED StopSchedulerDelete(mu.proc)
        /\ mu = Free =>
              /\ \A id \in Ids : ENABLED StopSchedulerBody(External, id)
              /\ \A id \in Ids, cfg \in Configs :
                    (schedulers[id] # NoJob \/ NextJob # NoJob) =>
                        ENABLED StartScheduler(id, cfg)
              /\ \A j \in Jobs : InStop(j) => ENABLED StopSchedulerBody(j, objs[j].id)

\* C16: mu is held only inside StopScheduler (StartScheduler takes and
\* releases it within its one step), never by a job at its start wait, at the
\* loop's select or in an API call, and the steps of run() and callAPI outside
\* StopScheduler neither take nor release it; the holder can always finish,
\* and with mu free every call can proceed, so no call waits for a job's wait
\* or dispatch and a job's call on itself cannot deadlock.
C16_LockOnlyAroundMap ==
    /\ []LockOnlyInStop
    /\ []NeverBlocked
    /\ [][\A id \in Ids, cfg \in Configs : StartScheduler(id, cfg) => mu' = Free]_vars
    /\ [][\A j \in Jobs :
              (\/ RunParse(j) \/ WaitExpired(j) \/ WaitStopped(j)
               \/ LoopTick(j) \/ LoopStopped(j)
               \/ \E r \in Outcomes : Response(j, r)) => mu' = mu]_vars
    /\ [][\A p \in {External} \cup Jobs, id \in Ids :
              (StopSchedulerBody(p, id) /\ mu'.held) => (mu'.proc = p /\ mu'.id = id)]_vars

\* A job that got 200 holds mu in the StopScheduler call that removes it,
\* while another job's API call is in flight.
C16_Witness ==
    /\ mu.held
    /\ mu.proc \in Jobs
    /\ gor[mu.proc].pc = "stopOK"
    /\ schedulers[mu.id] = mu.proc
    /\ \E k \in Jobs \ {mu.proc} : gor[k].pc = "dispatch"

Cancelled(j) == j \in Live /\ objs[j].closed

\* C17: a job whose stop channel has been closed, wherever run() was at that
\* moment, returns in the end (or a panic has ended the process, and every
\* job with it).
C17_CancelledJobTerminates ==
    \A j \in Jobs : Cancelled(j) ~> (gor[j].pc = "none" \/ crashed)

\* A job cancelled while its API call is in flight.
C17_Witness ==
    \E j \in Jobs : Cancelled(j) /\ gor[j].pc = "dispatch" /\ ~gor[j].ok200 /\ mu = Free

\* Job j as a held job has to be: running, stop channel open, run() not
\* returned.
LiveAndUncancelled(j) == objs[j].running /\ ~objs[j].closed /\ j \in Live

\* C18: every job the registry holds is running, uncancelled and not
\* Terminated, in every state in which mu is free, which are the states a
\* StartScheduler or StopScheduler call can find; while a StopScheduler call
\* holds mu the one exception is the job it is stopping, between the close and
\* the delete.  So no StopScheduler call takes the "not running" branch.
C18_RegisteredIsLive ==
    /\ [](\A j \in Jobs :
              (Registered(j) /\ ~(mu.held /\ schedulers[mu.id] = j)) => LiveAndUncancelled(j))
    /\ [](mu = Free => \A id \in Ids : StopCase(schedulers, objs, id) # "notRunning")
    /\ [][\A p \in {External} \cup Jobs, id \in Ids :
              StopSchedulerBody(p, id) => lastLog' # Log("notRunning", id)]_vars

\* The registry holds a job that has got 200 and is about to stop itself,
\* while a cancelled job of the same id has not yet returned.
C18_Witness ==
    /\ mu = Free
    /\ \E j \in Jobs, k \in Jobs :
          /\ Registered(j) /\ gor[j].pc = "stopOK"
          /\ k # j /\ Cancelled(k) /\ objs[k].id = objs[j].id

\* The moves of a job's phase within one step of the program.
PhaseMoves ==
    { <<"Pending", "Waiting">>, <<"Pending", "Terminated">>,
      <<"Waiting", "Running">>, <<"Waiting", "Terminated">>,
      <<"Running", "Terminated">> }

\* C19: with every step a job keeps its phase or moves along Pending ->
\* Waiting -> Running -> Terminated: Pending -> Terminated only out of the
\* self-stop after a parse error, Waiting -> Terminated only on the stop case
\* of the start wait or out of the self-stop after an invalid unit, into
\* Running only on the expiry of the start wait.  Nothing leaves Terminated:
\* a slot without goroutine changes only when StartScheduler makes a new job.
\* An API call is begun only from the loop, by a job whose start time parsed
\* and whose unit is valid.
C19_PhasesOnlyForward ==
    /\ [][\A j \in Jobs :
              \/ Phase(j)' = Phase(j)
              \/ /\ Phase(j) = "Terminated"
                 /\ \E id \in Ids, cfg \in Configs : StartScheduler(id, cfg)
                 /\ Phase(j)' = "Pending"
                 /\ objs'[j] = NewObj(objs'[j].id, objs'[j].config)
              \/ /\ <<Phase(j), Phase(j)'>> \in PhaseMoves
                 /\ (Phase(j) = "Pending" /\ Phase(j)' = "Terminated") =>
                        (gor[j].pc = "stopParse" /\ BadStartTime(j))
                 /\ (Phase(j) = "Waiting" /\ Phase(j)' = "Terminated") =>
                        \/ WaitStopped(j)
                        \/ gor[j].pc = "stopUnit" /\ InvalidUnit(j)
                 /\ Phase(j)' = "Running" => WaitExpired(j)]_vars
    /\ [][\A j \in Jobs : (gor'[j].pc = "dispatch" /\ gor[j].pc # "dispatch") =>
              (LoopTick(j) /\ Phase(j) = "Running")]_vars
    /\ [](\A j \in Jobs : Phase(j) = "Running" =>
              /\ ParseStartTime(objs[j].config.StartTime)
              /\ objs[j].config.RepeatUnit \in ValidUnits)

\* One job is in an API call while an earlier one, cancelled when Pending,
\* has failed its parse and is on its way from Pending to Terminated.
C19_Witness ==
    \E j \in Jobs, k \in Jobs :
        /\ gor[j].pc = "stopParse" /\ objs[j].closed
        /\ gor[k].pc = "dispatch"

Min(a, b) == IF a < b THEN a ELSE b

\* The log is the entries of the last Min(added, MaxLogs) AddLog calls, in the
\* order of the calls.
MostRecent ==
    /\ Len(logs) = Min(added, MaxLogs)
    /\ \A i \in 1..Len(logs) : logs[i].Time = added - Len(logs) + i

\* C11: whenever no AddLog call is under way (the states GetLogs can see) the
\* log holds at most 100 entries and they are those of the most recent
\* Min(n, 100) calls, oldest first; within a call the log is at most one entry
\* longer; the append puts the new entry last and keeps all others, and the
\* trim drops nothing or, on a log of 101 entries, exactly the first.
C11_LogCappedAtMostRecent ==
    /\ [](~logmu.held => (Len(logs) <= MaxLogs /\ MostRecent))
    /\ [](Len(logs) <= MaxLogs + 1)
    /\ [][\A p \in Callers, m \in Messages : AddLogAppend(p, m) =>
              /\ Len(logs') = Len(logs) + 1
              /\ logs'[Len(logs')] = LogEntry(added', m)
              /\ \A i \in 1..Len(logs) : logs'[i] = logs[i]]_allvars
    /\ [][\A p \in Callers : AddLogTrim(p) =>
              \/ Len(logs) <= MaxLogs /\ logs' = logs
              \/ /\ Len(logs) = MaxLogs + 1
                 /\ Len(logs') = MaxLogs
                 /\ \A i \in 1..MaxLogs : logs'[i] = logs[i + 1]]_allvars

\* 150 entries have been added by both callers: entries 51 to 150 are left.
C11_Witness ==
    /\ ~logmu.held
    /\ added = 150
    /\ Len(logs) = 100
    /\ logs[1].Time = 51
    /\ logs[100].Time = 150

\* C20: when main serves requests the schedulers map has been made, and a
\* /start request with a valid body for an id the registry does not hold puts
\* a new job into the registry, launches its goroutine and is answered 200.
C20_MainInitialisesRegistry ==
    /\ [](mainpc = "serving" => initialized)
    /\ [][\A id \in Ids, cfg \in Configs :
              (StartHandler(TRUE, id, cfg) /\ schedulers[id] = NoJob /\ NextJob # NoJob) =>
                  /\ schedulers'[id] \in Jobs
                  /\ gor'[schedulers'[id]].pc = "start"
                  /\ objs'[schedulers'[id]] = NewObj(id, cfg)
                  /\ resp' = Resp("start", "returned", StatusOK)]_allvars

====
